---- MODULE Spec2Model ----
(***************************************************************************)
(* Model of airflow/providers/microsoft/azure/hooks/powerbi.py:            *)
(* PowerBIHook, one invocation of a public coroutine at a time.  Each      *)
(* coroutine is split at its single `await self.run(...)`: the *_call      *)
(* action issues the request, the *_resume action continues with the       *)
(* executor's response or exception and runs the rest of the body.         *)
(***************************************************************************)
EXTENDS Integers, Sequences, FiniteSets, TLC

VARIABLES pc, op, refresh_id, execLog, res, outcome, stopped

vars == <<pc, op, refresh_id, execLog, res, outcome, stopped>>

(* ------------------------------ bounds --------------------------------- *)
MaxHist == 2
MaxList == 3

(* --------------------------- python values ----------------------------- *)
PyNone == [t |-> "NoneType", v |-> ""]
PyStr(s) == [t |-> "str", v |-> s]
Missing == [t |-> "missing", v |-> ""]

\* str(x): None becomes the text "None", a str is itself
str(x) == IF x.t = "NoneType" THEN "None" ELSE x.v

\* dict.get(key): the value, or None when the key is absent
Get(d, k) == IF k \in DOMAIN d THEN d[k] ELSE PyNone

BoundedSeq(S, n) == UNION {[1..k -> S] : k \in 0..n}

(* ----------------------- PowerBIDatasetRefreshStatus ------------------- *)
IN_PROGRESS == "In Progress"
FAILED == "Failed"
COMPLETED == "Completed"
DISABLED == "Disabled"

TERMINAL_STATUSES_with_disabled == {FAILED, COMPLETED, DISABLED}
TERMINAL_STATUSES == {FAILED, COMPLETED}
FAILURE_STATUSES == {FAILED, DISABLED}

(* ------------------------------ exceptions ----------------------------- *)
PowerBIDatasetRefreshException == "PowerBIDatasetRefreshException"
PowerBIWorkspaceListException == "PowerBIWorkspaceListException"
PowerBIDatasetListException == "PowerBIDatasetListException"

\* the classes `except AirflowException` catches
IsAirflowException(e) ==
    e \in {"AirflowException", "AirflowNotFoundException",
           PowerBIDatasetRefreshException, PowerBIWorkspaceListException,
           PowerBIDatasetListException}

Return(v) == [kind |-> "return", exc |-> "", msg |-> <<>>, value |-> v]
Raise(e, m) == [kind |-> "raise", exc |-> e, msg |-> m, value |-> <<>>]

(* --------------------- the request executor (self.run) ----------------- *)
\* what the awaited call can raise: application errors, which the adapter
\* reports as AirflowException, and transport errors, which are not
ExecErrors ==
    {[exc |-> "AirflowException", msg |-> <<"Bad Request">>],
     [exc |-> "AirflowNotFoundException", msg |-> <<"Not Found">>],
     [exc |-> "TimeoutError", msg |-> <<"timed out">>]}

Ok(r) == [kind |-> "ok", response |-> r, exc |-> "", msg |-> <<>>]
Err(e) == [kind |-> "err", response |-> <<>>, exc |-> e.exc, msg |-> e.msg]
NoResult == [kind |-> "none", response |-> <<>>, exc |-> "", msg |-> <<>>]

\* a dict holding the keys whose value is given
Dict3(k1, v1, k2, v2, k3, v3) ==
    LET val(k) == IF k = k1 THEN v1 ELSE IF k = k2 THEN v2 ELSE v3
    IN [k \in {x \in {k1, k2, k3} : val(x) # Missing} |-> val(k)]

RawStatuses ==
    {"Unknown", "unknown", "UNKNOWN", IN_PROGRESS, FAILED, COMPLETED, DISABLED, "Cancelled"}

\* history records as the service sends them: every status with an id, and
\* every combination of an absent, null or present key
RawRecords ==
    {Dict3("requestId", PyStr(i), "status", PyStr(s), "serviceExceptionJson", PyNone) :
        i \in {"r1", "r2"}, s \in RawStatuses}
    \cup
    {Dict3("requestId", i, "status", s, "serviceExceptionJson", e) :
        i \in {Missing, PyNone, PyStr("r1")},
        s \in {Missing, PyNone, PyStr(COMPLETED)},
        e \in {Missing, PyNone, PyStr("{errorCode}")}}

HistoryResponses ==
    {<<>>} \cup {[value |-> h] : h \in BoundedSeq(RawRecords, MaxHist)}

ListElements ==
    {[id |-> "a", name |-> "n"], [id |-> "b", name |-> "n"], [name |-> "n"]}

ListResponses ==
    {<<>>} \cup {[value |-> l] : l \in BoundedSeq(ListElements, MaxList)}

TriggerResponses == {<<>>, [requestid |-> PyStr("r1")], [requestid |-> PyStr("r2")]}

RefreshIds == {"r1", "r2", "None"}

run(log, method, url) == Append(log, [method |-> method, url |-> url])

(* ------------------------- raw_to_refresh_details ---------------------- *)
Lower(s) == IF s \in {"Unknown", "UNKNOWN"} THEN "unknown" ELSE s

raw_to_refresh_details_nocase(refresh_details) ==
    [request_id |-> str(Get(refresh_details, "requestId")),
     status |-> IF Lower(str(Get(refresh_details, "status"))) = "unknown"
                THEN "In Progress"
                ELSE str(Get(refresh_details, "status")),
     error |-> str(Get(refresh_details, "serviceExceptionJson"))]

raw_to_refresh_details_emptydefault(refresh_details) ==
    LET get(k) == IF k \in DOMAIN refresh_details THEN refresh_details[k] ELSE PyStr("")
    IN [request_id |-> str(get("requestId")),
        status |-> IF str(get("status")) = "Unknown"
                   THEN "In Progress"
                   ELSE str(get("status")),
        error |-> str(get("serviceExceptionJson"))]

raw_to_refresh_details(refresh_details) ==
    [request_id |-> str(Get(refresh_details, "requestId")),
     status |-> IF str(Get(refresh_details, "status")) = "Unknown"
                THEN "In Progress"
                ELSE str(Get(refresh_details, "status")),
     error |-> str(Get(refresh_details, "serviceExceptionJson"))]

(* ---------------------------- get_refresh_history ---------------------- *)
get_refresh_history(r) ==
    IF r.kind = "err"
    THEN IF IsAirflowException(r.exc)
         THEN Raise(PowerBIDatasetRefreshException, <<"Failed to retrieve refresh history">>)
         ELSE Raise(r.exc, r.msg)
    ELSE IF "value" \notin DOMAIN r.response
         THEN Raise("TypeError", <<"'NoneType' object is not iterable">>)
         ELSE Return([i \in DOMAIN r.response.value |->
                         raw_to_refresh_details(r.response.value[i])])

(* --------------------- get_refresh_details_by_refresh_id --------------- *)
\* list.index(x): the first position holding x
index_last(s, x) == CHOOSE i \in DOMAIN s : s[i] = x /\ \A j \in DOMAIN s : s[j] = x => j <= i
index(s, x) == CHOOSE i \in DOMAIN s : s[i] = x /\ \A j \in DOMAIN s : s[j] = x => i <= j

get_refresh_details_by_refresh_id_default_latest(r, rid) ==
    LET h == get_refresh_history(r)
    IN IF h.kind = "raise" THEN h
       ELSE LET refresh_histories == h.value
                refresh_ids == [i \in DOMAIN refresh_histories |-> refresh_histories[i].request_id]
            IN IF Len(refresh_histories) = 0
               THEN Raise(PowerBIDatasetRefreshException,
                          <<"Unable to fetch the details of dataset refresh with Request Id: ", rid>>)
               ELSE IF \A i \in DOMAIN refresh_ids : refresh_ids[i] # rid
               THEN Return(refresh_histories[1])
               ELSE Return(refresh_histories[index(refresh_ids, rid)])

get_refresh_details_by_refresh_id(r, rid) ==
    LET h == get_refresh_history(r)
    IN IF h.kind = "raise" THEN h
       ELSE LET refresh_histories == h.value
                refresh_ids == [i \in DOMAIN refresh_histories |-> refresh_histories[i].request_id]
            IN IF Len(refresh_histories) = 0
               THEN Raise(PowerBIDatasetRefreshException,
                          <<"Unable to fetch the details of dataset refresh with Request Id: ", rid>>)
               ELSE IF \A i \in DOMAIN refresh_ids : refresh_ids[i] # rid
               THEN Raise(PowerBIDatasetRefreshException,
                          <<"Unable to fetch the details of dataset refresh with Request Id: ", rid>>)
               ELSE Return(refresh_histories[index(refresh_ids, rid)])

(* ---------------------------- trigger_dataset_refresh ------------------ *)
trigger_dataset_refresh(r) ==
    IF r.kind = "err"
    THEN IF IsAirflowException(r.exc)
         THEN Raise(PowerBIDatasetRefreshException, <<"Failed to trigger dataset refresh.">>)
         ELSE Raise(r.exc, r.msg)
    ELSE Return(Get(r.response, "requestid"))

(* ------------------- get_workspace_list / get_dataset_list ------------- *)
\* [x["id"] for x in l if "id" in x]
RECURSIVE ids_of(_)
ids_of(l) ==
    IF l = <<>> THEN <<>>
    ELSE IF "id" \in DOMAIN Head(l)
         THEN <<Head(l).id>> \o ids_of(Tail(l))
         ELSE ids_of(Tail(l))

RECURSIVE ids_until_missing(_)
ids_until_missing(l) ==
    IF l = <<>> THEN <<>>
    ELSE IF "id" \in DOMAIN Head(l)
         THEN <<Head(l).id>> \o ids_until_missing(Tail(l))
         ELSE <<>>

\* response.get("value", [])
value_or_empty(response) == IF "value" \in DOMAIN response THEN response.value ELSE <<>>

get_workspace_list_wrong_exception(r) ==
    IF r.kind = "err"
    THEN IF IsAirflowException(r.exc)
         THEN Raise(PowerBIDatasetListException, <<"Failed to get dataset ID list.">>)
         ELSE Raise(r.exc, r.msg)
    ELSE Return(ids_of(value_or_empty(r.response)))

get_workspace_list(r) ==
    IF r.kind = "err"
    THEN IF IsAirflowException(r.exc)
         THEN Raise(PowerBIWorkspaceListException, <<"Failed to get workspace ID list.">>)
         ELSE Raise(r.exc, r.msg)
    ELSE Return(ids_of(value_or_empty(r.response)))

get_dataset_list_until_missing(r) ==
    IF r.kind = "err"
    THEN IF IsAirflowException(r.exc)
         THEN Raise(PowerBIDatasetListException, <<"Failed to get dataset ID list.">>)
         ELSE Raise(r.exc, r.msg)
    ELSE Return(ids_until_missing(value_or_empty(r.response)))

get_dataset_list(r) ==
    IF r.kind = "err"
    THEN IF IsAirflowException(r.exc)
         THEN Raise(PowerBIDatasetListException, <<"Failed to get dataset ID list.">>)
         ELSE Raise(r.exc, r.msg)
    ELSE Return(ids_of(value_or_empty(r.response)))

(* ---------------------------- cancel_dataset_refresh ------------------- *)
cancel_dataset_refresh_wrapped(r) ==
    IF r.kind = "err"
    THEN IF IsAirflowException(r.exc)
         THEN Raise(PowerBIDatasetRefreshException, <<"Failed to cancel dataset refresh.">>)
         ELSE Raise(r.exc, r.msg)
    ELSE Return(PyNone)

cancel_dataset_refresh(r) ==
    IF r.kind = "err" THEN Raise(r.exc, r.msg) ELSE Return(PyNone)

(* ------------------------------- actions ------------------------------- *)
Init ==
    /\ pc = "idle"
    /\ op = ""
    /\ refresh_id = ""
    /\ execLog = <<>>
    /\ res = NoResult
    /\ outcome = Return(PyNone)
    /\ stopped = "undecided"

\* the coroutine runs up to its await: one request handed to the executor
Call(o, rid, method, url) ==
    /\ pc = "idle"
    /\ pc' = "awaiting"
    /\ op' = o
    /\ refresh_id' = rid
    /\ execLog' = run(execLog, method, url)
    /\ UNCHANGED <<res, outcome, stopped>>

\* the await completes with r and the coroutine runs to its end with result o
Resume(r, o) ==
    /\ res' = r
    /\ outcome' = o
    /\ pc' = "done"
    /\ UNCHANGED <<op, refresh_id, execLog, stopped>>

Results(responses) == {Ok(x) : x \in responses} \cup {Err(e) : e \in ExecErrors}

get_refresh_history_call ==
    Call("get_refresh_history", "", "GET", "myorg/groups/{group_id}/datasets/{dataset_id}/refreshes")

get_refresh_history_resume ==
    /\ pc = "awaiting" /\ op = "get_refresh_history"
    /\ \E r \in Results(HistoryResponses) : Resume(r, get_refresh_history(r))

get_refresh_details_by_refresh_id_call ==
    \E rid \in RefreshIds :
        Call("get_refresh_details_by_refresh_id", rid, "GET",
             "myorg/groups/{group_id}/datasets/{dataset_id}/refreshes")

get_refresh_details_by_refresh_id_resume ==
    /\ pc = "awaiting" /\ op = "get_refresh_details_by_refresh_id"
    /\ \E r \in Results(HistoryResponses) :
          Resume(r, get_refresh_details_by_refresh_id(r, refresh_id))

trigger_dataset_refresh_call ==
    Call("trigger_dataset_refresh", "", "POST", "myorg/groups/{group_id}/datasets/{dataset_id}/refreshes")

\* a variant that sends the request again after an AirflowException
trigger_dataset_refresh_resume_retry ==
    /\ pc = "awaiting" /\ op = "trigger_dataset_refresh"
    /\ \E r \in Results(TriggerResponses) :
          IF r.kind = "err" /\ IsAirflowException(r.exc) /\ Len(execLog) < 2
          THEN /\ execLog' = run(execLog, "POST", "myorg/groups/{group_id}/datasets/{dataset_id}/refreshes")
               /\ res' = r
               /\ UNCHANGED <<pc, op, refresh_id, outcome, stopped>>
          ELSE Resume(r, trigger_dataset_refresh(r))

trigger_dataset_refresh_resume ==
    /\ pc = "awaiting" /\ op = "trigger_dataset_refresh"
    /\ \E r \in Results(TriggerResponses) : Resume(r, trigger_dataset_refresh(r))

get_workspace_list_call ==
    Call("get_workspace_list", "", "GET", "myorg/groups")

get_workspace_list_resume ==
    /\ pc = "awaiting" /\ op = "get_workspace_list"
    /\ \E r \in Results(ListResponses) : Resume(r, get_workspace_list(r))

get_dataset_list_call ==
    Call("get_dataset_list", "", "GET", "myorg/groups/{group_id}/datasets")

get_dataset_list_resume ==
    /\ pc = "awaiting" /\ op = "get_dataset_list"
    /\ \E r \in Results(ListResponses) : Resume(r, get_dataset_list(r))

cancel_dataset_refresh_call ==
    \E rid \in RefreshIds :
        Call("cancel_dataset_refresh", rid, "DELETE",
             "myorg/groups/{group_id}/datasets/{dataset_id}/refreshes/{dataset_refresh_id}")

cancel_dataset_refresh_resume ==
    /\ pc = "awaiting" /\ op = "cancel_dataset_refresh"
    /\ \E r \in Results({<<>>}) : Resume(r, cancel_dataset_refresh(r))

\* the polling caller reads the status of the record it was given and stops
\* when it is a terminal one
CallerPoll ==
    /\ pc = "done" /\ op = "get_refresh_details_by_refresh_id"
    /\ outcome.kind = "return"
    /\ stopped = "undecided"
    /\ stopped' = IF outcome.value.status \in TERMINAL_STATUSES THEN "stop" ELSE "continue"
    /\ UNCHANGED <<pc, op, refresh_id, execLog, res, outcome>>

\* the caller has the result; the hook keeps nothing between invocations
Finish ==
    /\ pc = "done"
    /\ pc' = "idle"
    /\ op' = ""
    /\ refresh_id' = ""
    /\ execLog' = <<>>
    /\ res' = NoResult
    /\ outcome' = Return(PyNone)
    /\ stopped' = "undecided"

Next ==
    \/ get_refresh_history_call
    \/ get_refresh_history_resume
    \/ get_refresh_details_by_refresh_id_call
    \/ get_refresh_details_by_refresh_id_resume
    \/ trigger_dataset_refresh_call
    \/ trigger_dataset_refresh_resume
    \/ get_workspace_list_call
    \/ get_workspace_list_resume
    \/ get_dataset_list_call
    \/ get_dataset_list_resume
    \/ cancel_dataset_refresh_call
    \/ cancel_dataset_refresh_resume
    \/ CallerPoll
    \/ Finish

Spec == Init /\ [][Next]_vars

(* ------------------------------ properties ----------------------------- *)

\* C1: every record returned by get_refresh_history or
\* get_refresh_details_by_refresh_id has a status among "In Progress",
\* "Failed", "Completed", "Disabled", whatever raw status the service sent.
C1_StatusAlwaysEnumerated ==
    (pc = "done" /\ outcome.kind = "return") =>
        /\ op = "get_refresh_history" =>
              \A i \in DOMAIN outcome.value :
                  outcome.value[i].status \in {IN_PROGRESS, FAILED, COMPLETED, DISABLED}
        /\ op = "get_refresh_details_by_refresh_id" =>
              outcome.value.status \in {IN_PROGRESS, FAILED, COMPLETED, DISABLED}

\* C2: raw_to_refresh_details maps the raw status "Unknown" to "In Progress"
\* and returns every other raw status string verbatim, case-sensitively.
C2_UnknownOnlySubstituted ==
    (pc = "done" /\ op = "get_refresh_history" /\ outcome.kind = "return") =>
        \A i \in DOMAIN outcome.value :
            LET raw == res.response.value[i]
            IN ("status" \in DOMAIN raw /\ raw["status"].t = "str") =>
                  /\ raw["status"].v = "Unknown" => outcome.value[i].status = "In Progress"
                  /\ raw["status"].v # "Unknown" => outcome.value[i].status = raw["status"].v

C2_Witness ==
    /\ pc = "done" /\ op = "get_refresh_history" /\ outcome.kind = "return"
    /\ Len(outcome.value) = 2
    /\ "status" \in DOMAIN res.response.value[1]
    /\ res.response.value[1]["status"] = PyStr("Unknown")
    /\ outcome.value[1].status = "In Progress"
    /\ "status" \in DOMAIN res.response.value[2]
    /\ res.response.value[2]["status"] = PyStr("unknown")
    /\ outcome.value[2].status = "unknown"

\* C3: raw_to_refresh_details never fails on a mapping: every raw record of a
\* fetched history becomes a record with exactly the fields request_id,
\* status and error, each a string, and a field whose raw key is missing or
\* null is the string "None".
C3_ThreeStringFields ==
    (pc = "done" /\ op = "get_refresh_history" /\ res.kind = "ok"
        /\ "value" \in DOMAIN res.response) =>
        /\ outcome.kind = "return"
        /\ Len(outcome.value) = Len(res.response.value)
        /\ \A i \in DOMAIN res.response.value :
              LET raw == res.response.value[i]
                  rec == outcome.value[i]
                  absent(k) == k \notin DOMAIN raw \/ raw[k] = PyNone
              IN /\ DOMAIN rec = {"request_id", "status", "error"}
                 /\ \A f \in DOMAIN rec : rec[f] \in STRING
                 /\ absent("requestId") => rec.request_id = "None"
                 /\ absent("status") => rec.status = "None"
                 /\ absent("serviceExceptionJson") => rec.error = "None"

C3_Witness ==
    /\ pc = "done" /\ op = "get_refresh_history" /\ outcome.kind = "return"
    /\ Len(outcome.value) = 2
    /\ DOMAIN res.response.value[1] = {}
    /\ outcome.value[1] = [request_id |-> "None", status |-> "None", error |-> "None"]
    /\ DOMAIN res.response.value[2] = {"requestId", "status", "serviceExceptionJson"}
    /\ res.response.value[2]["serviceExceptionJson"] = PyNone
    /\ outcome.value[2].error = "None"

\* C4: when the fetched history is empty, or none of its records has a
\* request_id equal to refresh_id, get_refresh_details_by_refresh_id raises
\* PowerBIDatasetRefreshException with a message naming refresh_id and
\* returns no record.
C4_MissingIdRaises ==
    (pc = "done" /\ op = "get_refresh_details_by_refresh_id" /\ res.kind = "ok"
        /\ "value" \in DOMAIN res.response
        /\ \A i \in DOMAIN res.response.value :
              str(Get(res.response.value[i], "requestId")) # refresh_id) =>
        /\ outcome.kind = "raise"
        /\ outcome.exc = PowerBIDatasetRefreshException
        /\ outcome.msg = <<"Unable to fetch the details of dataset refresh with Request Id: ",
                           refresh_id>>

C4_Witness ==
    /\ pc = "done" /\ op = "get_refresh_details_by_refresh_id" /\ res.kind = "ok"
    /\ "value" \in DOMAIN res.response
    /\ Len(res.response.value) = 2
    /\ refresh_id = "r2"
    /\ \A i \in DOMAIN res.response.value :
          str(Get(res.response.value[i], "requestId")) = "r1"
    /\ outcome.kind = "raise"
    /\ outcome.msg[2] = "r2"

\* C5: a record returned by get_refresh_details_by_refresh_id has request_id
\* equal to refresh_id and is the normalization of the first raw history
\* record, in the service's order, whose request id equals refresh_id.
C5_ReturnsFirstMatch ==
    (pc = "done" /\ op = "get_refresh_details_by_refresh_id" /\ outcome.kind = "return") =>
        /\ outcome.value.request_id = refresh_id
        /\ \E i \in DOMAIN res.response.value :
              /\ str(Get(res.response.value[i], "requestId")) = refresh_id
              /\ \A j \in 1..(i - 1) :
                    str(Get(res.response.value[j], "requestId")) # refresh_id
              /\ outcome.value = raw_to_refresh_details(res.response.value[i])

C5_Witness ==
    /\ pc = "done" /\ op = "get_refresh_details_by_refresh_id" /\ outcome.kind = "return"
    /\ refresh_id = "r1"
    /\ Len(res.response.value) = 2
    /\ res.response.value[1] =
          Dict3("requestId", PyStr("r1"), "status", PyStr(FAILED), "serviceExceptionJson", PyNone)
    /\ res.response.value[2] =
          Dict3("requestId", PyStr("r1"), "status", PyStr(COMPLETED), "serviceExceptionJson", PyNone)
    /\ outcome.value = [request_id |-> "r1", status |-> FAILED, error |-> "None"]

C7_CancelPassesThrough ==
    (op = "cancel_dataset_refresh") =>
        /\ execLog =
              <<[method |-> "DELETE",
                 url |-> "myorg/groups/{group_id}/datasets/{dataset_id}/refreshes/{dataset_refresh_id}"]>>
        /\ (pc = "done" /\ res.kind = "err") =>
              /\ outcome.kind = "raise"
              /\ outcome.exc = res.exc
              /\ outcome.msg = res.msg

C7_Witness ==
    /\ pc = "done" /\ op = "cancel_dataset_refresh"
    /\ res.kind = "err" /\ res.exc = "AirflowException"
    /\ outcome.kind = "raise" /\ outcome.exc = "AirflowException"

\* C8: get_workspace_list and get_dataset_list return the id values of the
\* elements of the response's "value" that have an id, in the collection's
\* order; elements without id are left out without an error, and a response
\* without "value" gives the empty sequence.
C8_IdsInOrder ==
    (pc = "done" /\ op \in {"get_workspace_list", "get_dataset_list"} /\ res.kind = "ok") =>
        LET l == IF "value" \in DOMAIN res.response THEN res.response.value ELSE <<>>
            withId == {i \in DOMAIN l : "id" \in DOMAIN l[i]}
        IN /\ outcome.kind = "return"
           /\ Len(outcome.value) = Cardinality(withId)
           /\ \A i \in withId :
                 outcome.value[Cardinality({j \in withId : j <= i})] = l[i]["id"]

C8_Witness ==
    /\ pc = "done" /\ op = "get_dataset_list" /\ res.kind = "ok"
    /\ "value" \in DOMAIN res.response
    /\ Len(res.response.value) = 3
    /\ res.response.value[1] = [id |-> "b", name |-> "n"]
    /\ res.response.value[2] = [name |-> "n"]
    /\ res.response.value[3] = [id |-> "a", name |-> "n"]
    /\ outcome = Return(<<"b", "a">>)

\* C9: every public operation hands exactly one request to the executor per
\* invocation, whether it succeeds or fails; a failed request is not sent
\* again and get_refresh_details_by_refresh_id sends only its history fetch.
C9_ExactlyOneRequest ==
    /\ pc = "idle" => Len(execLog) = 0
    /\ pc \in {"awaiting", "done"} => Len(execLog) = 1
    /\ (pc \in {"awaiting", "done"} /\ op = "get_refresh_details_by_refresh_id") =>
          execLog = <<[method |-> "GET",
                       url |-> "myorg/groups/{group_id}/datasets/{dataset_id}/refreshes"]>>

C9_Witness ==
    /\ pc = "done" /\ op = "trigger_dataset_refresh"
    /\ res.kind = "err" /\ res.exc = "AirflowException"
    /\ outcome.kind = "raise"
    /\ Len(execLog) = 1

\* C10: a caller polling get_refresh_details_by_refresh_id that stops only
\* on a status in TERMINAL_STATUSES stops on "Failed" and "Completed" and
\* keeps polling on "Disabled" and "In Progress" (a raw "Unknown" included),
\* although "Disabled" is in FAILURE_STATUSES.
C10_PollStopsOnTerminalOnly ==
    /\ TERMINAL_STATUSES = {"Failed", "Completed"}
    /\ FAILURE_STATUSES = {"Failed", "Disabled"}
    /\ stopped # "undecided" =>
          /\ outcome.value.status \in {"Failed", "Completed"} => stopped = "stop"
          /\ outcome.value.status \in {"Disabled", "In Progress"} => stopped = "continue"
          /\ \A i \in DOMAIN res.response.value :
                (/\ str(Get(res.response.value[i], "requestId")) = refresh_id
                 /\ \A j \in 1..(i - 1) :
                       str(Get(res.response.value[j], "requestId")) # refresh_id
                 /\ Get(res.response.value[i], "status") = PyStr("Unknown"))
                => stopped = "continue"

C10_Witness ==
    /\ pc = "done" /\ op = "get_refresh_details_by_refresh_id"
    /\ outcome.kind = "return"
    /\ outcome.value.status = "Disabled"
    /\ outcome.value.status \in FAILURE_STATUSES
    /\ stopped = "continue"

====
